---- MODULE Spec2Model ----
(***************************************************************************)
(* The in-memory RPC server of uprotocol-sdk-python                        *)
(* (uprotocol/communication/inmemoryrpcserver.py): the handler registry,   *)
(* register_request_handler, unregister_request_handler and the dispatch   *)
(* callback HandleRequestListener.on_receive.                              *)
(*                                                                         *)
(* Spec     : the three operations run one at a time (each call is one     *)
(*            step).                                                       *)
(* SpecConc : two callers run register_request_handler concurrently, one   *)
(*            step per statement that reads or writes the registry or      *)
(*            calls the transport.                                         *)
(* SpecOk   : as Spec, on a transport that reports OK for every call.      *)
(* SpecRace : a caller thread registers and unregisters while the          *)
(*            transport's thread dispatches, one step per statement.       *)
(* SpecValidator : UriValidator (uri/validator/urivalidator.py) applied to *)
(*            URIs drawn from a bounded set.                               *)
(* SpecResult : RpcResult (exercised by tests/test_communication/          *)
(*            test_rpcresult.py) built from bounded values and statuses.   *)
(***************************************************************************)
EXTENDS Integers, Sequences, FiniteSets, TLC

\* ------------------------------------------------------------------ bounds
\* Number of method resources of the served entity.
MaxResource == 2
\* Number of distinct request ids.
MaxId == 2
\* Longest entity name given to the URI validator.
MaxNameLen == 2
\* Largest value wrapped in a successful RpcResult.
MaxValue == 3

\* ------------------------------------------------------------------ values
None == "None"

\* UCode values used by the server, plus one code a transport may report.
OK == "OK"
INVALID_ARGUMENT == "INVALID_ARGUMENT"
NOT_FOUND == "NOT_FOUND"
ALREADY_EXISTS == "ALREADY_EXISTS"
INTERNAL == "INTERNAL"
UNAVAILABLE == "UNAVAILABLE"

\* UMessageType values.
REQUEST == "UMESSAGE_TYPE_REQUEST"
RESPONSE == "UMESSAGE_TYPE_RESPONSE"
PUBLISH == "UMESSAGE_TYPE_PUBLISH"
MessageTypes == {REQUEST, RESPONSE, PUBLISH}

\* A UUri value.
UUri(a, e, v, r) ==
    [authority_name |-> a, ue_id |-> e, ue_version_major |-> v, resource_id |-> r]

\* transport.get_source(): the address of the entity the server runs in.
Source == UUri("a", 1, 1, 0)

\* The address of the client that sends the requests.
Client == UUri("c", 7, 1, 0)

\* Method URIs of the served entity.
OwnUris == {UUri("a", 1, 1, r) : r \in 1..MaxResource}

\* Method URIs that differ from the source in exactly one of the three fields.
ForeignUris == {UUri("b", 1, 1, 1), UUri("a", 2, 1, 1), UUri("a", 1, 2, 1)}

Uris == OwnUris \cup ForeignUris

\* An optional argument: <<>> is Python's None, <<x>> is the value x.
Opt(S) == {<<>>} \cup {<<x>> : x \in S}

\* Request handlers (compared by identity) and the payloads they return.
Handlers == {"H1", "H2"}
Payloads == {"P1", "P2"}

\* What one call of handler.handle_request does: it returns a payload, raises
\* a UStatusError carrying a code and a message, or raises another exception.
HandlerOutcomes ==
    [kind : {"return"}, payload : Payloads, code : {OK}, message : {""}]
    \cup [kind : {"ustatuserror"}, payload : {None},
          code : {INVALID_ARGUMENT, NOT_FOUND}, message : {"bad"}]
    \cup [kind : {"exception"}, payload : {None}, code : {None}, message : {"boom"}]

\* What one call of transport.register_listener / unregister_listener does:
\* it returns a UStatus or raises an exception that is no UStatusError.
TransportOutcomes ==
    [kind : {"status"}, code : {OK}, message : {""}]
    \cup [kind : {"status"}, code : {UNAVAILABLE}, message : {"down"}]
    \cup [kind : {"exception"}, code : {None}, message : {"boom"}]

\* Incoming messages: attributes type, id, source and sink.
Messages == [type : MessageTypes, id : 1..MaxId, source : {Client}, sink : Uris]

\* ------------------------------------------------------- results of a call
\* The call returned a UStatus.
UStatus(code, message) ==
    [kind |-> "status", code |-> code, message |-> message, exc |-> ""]

\* The call returned None.
ReturnedNone == [kind |-> "none", code |-> None, message |-> "", exc |-> ""]

\* The call raised: exc is the exception class, code the UCode it carries.
Raised(exc, code, message) ==
    [kind |-> "raise", code |-> code, message |-> message, exc |-> exc]

\* ------------------------------------------------------------------- state
VARIABLES
    request_handlers,   \* the registry: a dict method URI -> handler
    listeners,          \* sinks the transport holds the server's listener for
    op,                 \* the last operation that ran
    arg_uri,            \* its method_uri / uri argument (Opt)
    arg_handler,        \* its handler argument
    arg_msg,            \* its request argument (Opt)
    ret,                \* what it returned or raised
    invoked,            \* the handlers it invoked and what each did, in order
    sends,              \* the messages it passed to transport.send, in order
    tcalls,             \* its register/unregister_listener calls and what
                        \* the transport reported for each, in order
    pc,                 \* concurrent callers: position of each
    t_uri,              \* concurrent callers: method_uri of each
    t_handler,          \* concurrent callers: handler of each
    t_res,              \* concurrent callers: what register_listener reported
    t_ret,              \* concurrent callers: what the call returned
    t_msg               \* concurrent dispatch: the request being dispatched (Opt)

server == <<request_handlers, listeners>>
observed == <<op, arg_uri, arg_handler, arg_msg, ret, invoked, sends, tcalls>>
threads == <<pc, t_uri, t_handler, t_res, t_ret, t_msg>>
vars == <<request_handlers, listeners, op, arg_uri, arg_handler, arg_msg, ret,
          invoked, sends, tcalls, pc, t_uri, t_handler, t_res, t_ret, t_msg>>

Threads == {"T1", "T2"}

\* ------------------------------------------------------------ dict helpers
EmptyDict == [k \in {} |-> None]

\* key in d
dict_in(d, k) == k \in DOMAIN d

\* d.get(k): None when the key is absent.
dict_get(d, k) == IF k \in DOMAIN d THEN d[k] ELSE None

\* d after d[k] = v
dict_set(d, k, v) == [x \in (DOMAIN d) \cup {k} |-> IF x = k THEN v ELSE d[x]]

\* d after del d[k] (also d after d.pop(k, None))
dict_del(d, k) == [x \in (DOMAIN d) \ {k} |-> d[x]]

\* ------------------------------------------------ collaborators of the server
\* UMessageBuilder.response_for_request(attributes): a response correlated to
\* the request (same id, source and sink swapped), no comm-status, no payload.
response_for_request(attributes) ==
    [payload |-> None, type |-> RESPONSE, source |-> attributes.sink,
     sink |-> attributes.source, reqid |-> attributes.id, commstatus |-> None]

\* response_builder.with_comm_status(code)
with_comm_status(builder, code) == [builder EXCEPT !.commstatus = code]

\* response_builder.build(payload)
build(builder, payload) == [builder EXCEPT !.payload = payload]

\* The transport's listeners after register_listener(ANY, listener, sink)
\* reported `res`: the listener is held once the transport reported OK.
register_listener(ls, sink, res) ==
    IF res.kind = "status" /\ res.code = OK THEN ls \cup {sink} ELSE ls

\* The transport's listeners after unregister_listener(ANY, listener, sink)
\* reported `res`.
unregister_listener(ls, sink, res) ==
    IF res.kind = "status" /\ res.code = OK THEN ls \ {sink} ELSE ls

\* ------------------------------------------------------------- on_receive
\* Mutant of IsRequest: the message type is not looked at.
IsRequest_AnyType(request) == TRUE

\* "Only handle request messages": the test the early return negates.
IsRequest(request) == request.type = REQUEST

\* Mutant of LookupHandler: a miss falls back to some registered handler.
LookupHandler_Fallback(d, sink) ==
    IF sink \in DOMAIN d THEN d[sink]
    ELSE IF DOMAIN d # {} THEN d[CHOOSE k \in DOMAIN d : TRUE]
    ELSE None

\* handler = self.request_handlers.pop(sink, None): the value obtained ...
LookupHandler(d, sink) == dict_get(d, sink)

\* ... and the registry the lookup leaves behind.
AfterLookup(d, sink) == dict_del(d, sink)

\* Mutant of ResponsePayload: the handler's return value is dropped.
ResponsePayload_Dropped(outcome) == None

\* The payload the response is built with: the handler's return value, or
\* None when the handler raised.
ResponsePayload(outcome) ==
    IF outcome.kind = "return" THEN outcome.payload ELSE None

\* Mutant of FailureCode: the code a UStatusError carries is not read.
FailureCode_AlwaysInternal(outcome) == INTERNAL

\* The code of the except branch: INTERNAL, or the code of a UStatusError.
FailureCode(outcome) ==
    IF outcome.kind = "ustatuserror" THEN outcome.code ELSE INTERNAL

\* The message passed to transport.send for `request` when the handler's call
\* ended as `outcome`.
ResponseFor(request, outcome) ==
    LET response_builder == response_for_request(request)
        marked == IF outcome.kind = "return"
                  THEN response_builder
                  ELSE with_comm_status(response_builder, FailureCode(outcome))
    IN  build(marked, ResponsePayload(outcome))

\* HandleRequestListener.on_receive(request); `outcome` is what the handler
\* does if it is invoked.
on_receive(request, outcome) ==
    /\ op' = "on_receive"
    /\ arg_uri' = <<>>
    /\ arg_handler' = None
    /\ arg_msg' = <<request>>
    /\ ret' = ReturnedNone
    /\ tcalls' = <<>>
    /\ IF ~IsRequest(request)
       THEN /\ invoked' = <<>>
            /\ sends' = <<>>
            /\ UNCHANGED request_handlers
       ELSE LET handler == LookupHandler(request_handlers, request.sink) IN
            /\ request_handlers' = AfterLookup(request_handlers, request.sink)
            /\ IF handler = None
               THEN /\ invoked' = <<>>
                    /\ sends' = <<>>
               ELSE /\ invoked' = <<[outcome |-> outcome, handler |-> handler]>>
                    /\ sends' = <<ResponseFor(request, outcome)>>
    /\ UNCHANGED <<listeners, threads>>

\* ----------------------------------------------- register_request_handler
\* "Ensure the method URI matches the transport source URI".
SourceMatches(method_uri) ==
    /\ method_uri.authority_name = Source.authority_name
    /\ method_uri.ue_id = Source.ue_id
    /\ method_uri.ue_version_major = Source.ue_version_major

\* The error raised for a method URI that does not match the source.
SourceMismatch ==
    Raised("UStatusError", INVALID_ARGUMENT,
           "Method URI does not match the transport source URI")

\* Mutant of AlreadyRegistered: the existence check is skipped.
AlreadyRegistered_Unchecked(d, method_uri) == FALSE

\* The registry already holds a handler for method_uri.
AlreadyRegistered(d, method_uri) ==
    dict_in(d, method_uri) /\ d[method_uri] # None

\* Mutant of ListenerRefused: the transport's status is not looked at.
ListenerRefused_Ignored(result) == FALSE

\* The transport's register_listener returned a status that is not OK.
ListenerRefused(result) == result.code # OK

\* Mutant of UnexpectedError: the exception is raised again.
UnexpectedError_Reraised(res) == Raised("Exception", None, res.message)

\* "except Exception": an exception that is no UStatusError becomes a Status
\* with code INTERNAL and the exception's text.
UnexpectedError(res) == UStatus(INTERNAL, res.message)

\* One transport call made by the server and what the transport reported.
TCall(fn, sink, res) == [sink |-> sink, res |-> res, fn |-> fn]

\* The try block of register_request_handler with its except clauses, for a
\* method_uri that matches the source: what the call returns, the registry and
\* the transport's listeners it leaves, the transport calls it made.
RegisterTry(d, ls, method_uri, handler, res) ==
    IF AlreadyRegistered(d, method_uri)
    THEN [listeners |-> ls,
          ret |-> UStatus(ALREADY_EXISTS, "Handler already registered"),
          tcalls |-> <<>>, handlers |-> d]
    ELSE LET called == <<TCall("register_listener", method_uri, res)>>
             held == register_listener(ls, method_uri, res)
         IN  IF res.kind = "exception"
             THEN [listeners |-> held, ret |-> UnexpectedError(res),
                   tcalls |-> called, handlers |-> d]
             ELSE IF ListenerRefused(res)
             THEN [listeners |-> held, ret |-> UStatus(res.code, res.message),
                   tcalls |-> called, handlers |-> d]
             ELSE [listeners |-> held, ret |-> UStatus(OK, ""),
                   tcalls |-> called,
                   handlers |-> dict_set(d, method_uri, handler)]

\* The argument checks both operations start with: the error they raise, or
\* ReturnedNone when the arguments pass.
ArgumentError(method_uri, handler) ==
    IF method_uri = <<>> THEN Raised("ValueError", None, "Method URI missing")
    ELSE IF handler = None THEN Raised("ValueError", None, "Request listener missing")
    ELSE IF ~SourceMatches(method_uri[1]) THEN SourceMismatch
    ELSE ReturnedNone

\* InMemoryRpcServer.register_request_handler(method_uri, handler); `res` is
\* what transport.register_listener does if it is called.
register_request_handler(method_uri, handler, res) ==
    LET err == ArgumentError(method_uri, handler) IN
    /\ op' = "register_request_handler"
    /\ arg_uri' = method_uri
    /\ arg_handler' = handler
    /\ arg_msg' = <<>>
    /\ invoked' = <<>>
    /\ sends' = <<>>
    /\ IF err.kind = "raise"
       THEN /\ ret' = err
            /\ tcalls' = <<>>
            /\ UNCHANGED <<request_handlers, listeners>>
       ELSE LET r == RegisterTry(request_handlers, listeners, method_uri[1], handler, res) IN
            /\ ret' = r.ret
            /\ tcalls' = r.tcalls
            /\ request_handlers' = r.handlers
            /\ listeners' = r.listeners
    /\ UNCHANGED threads

\* --------------------------------------------- unregister_request_handler
\* Mutant of HandlerMatches: any registered handler counts as a match.
HandlerMatches_AnyHandler(d, method_uri, handler) == dict_in(d, method_uri)

\* self.request_handlers.get(method_uri) == handler
HandlerMatches(d, method_uri, handler) == dict_get(d, method_uri) = handler

\* Mutant of UnregisterReturn: OK whatever the transport reported.
UnregisterReturn_AlwaysOk(res) == UStatus(OK, "")

\* What unregister_request_handler hands back once the transport's
\* unregister_listener ended as `res`: the transport's status, or the
\* transport's exception, which nothing catches.
UnregisterReturn(res) ==
    IF res.kind = "exception"
    THEN Raised("Exception", None, res.message)
    ELSE UStatus(res.code, res.message)

\* The body of unregister_request_handler after the argument checks.
UnregisterBody(d, ls, method_uri, handler, res) ==
    IF HandlerMatches(d, method_uri, handler)
    THEN [listeners |-> unregister_listener(ls, method_uri, res),
          ret |-> UnregisterReturn(res),
          tcalls |-> <<TCall("unregister_listener", method_uri, res)>>,
          handlers |-> dict_del(d, method_uri)]
    ELSE [listeners |-> ls, ret |-> UStatus(NOT_FOUND, ""),
          tcalls |-> <<>>, handlers |-> d]

\* InMemoryRpcServer.unregister_request_handler(method_uri, handler); `res` is
\* what transport.unregister_listener does if it is called.
unregister_request_handler(method_uri, handler, res) ==
    LET err == ArgumentError(method_uri, handler) IN
    /\ op' = "unregister_request_handler"
    /\ arg_uri' = method_uri
    /\ arg_handler' = handler
    /\ arg_msg' = <<>>
    /\ invoked' = <<>>
    /\ sends' = <<>>
    /\ IF err.kind = "raise"
       THEN /\ ret' = err
            /\ tcalls' = <<>>
            /\ UNCHANGED <<request_handlers, listeners>>
       ELSE LET r == UnregisterBody(request_handlers, listeners, method_uri[1], handler, res) IN
            /\ ret' = r.ret
            /\ tcalls' = r.tcalls
            /\ request_handlers' = r.handlers
            /\ listeners' = r.listeners
    /\ UNCHANGED threads

\* ------------------------------------------------------------ specification
\* InMemoryRpcServer.__init__: an empty registry; nothing has run yet.
Init ==
    /\ request_handlers = EmptyDict
    /\ listeners = {}
    /\ op = "init"
    /\ arg_uri = <<>>
    /\ arg_handler = None
    /\ arg_msg = <<>>
    /\ ret = ReturnedNone
    /\ invoked = <<>>
    /\ sends = <<>>
    /\ tcalls = <<>>
    /\ pc = [t \in Threads |-> "idle"]
    /\ t_uri = [t \in Threads |-> Source]
    /\ t_handler = [t \in Threads |-> None]
    /\ t_res = [t \in Threads |-> None]
    /\ t_ret = [t \in Threads |-> ReturnedNone]
    /\ t_msg = [t \in Threads |-> <<>>]

Register ==
    \E method_uri \in Opt(Uris), handler \in Handlers \cup {None},
       res \in TransportOutcomes :
        register_request_handler(method_uri, handler, res)

Unregister ==
    \E method_uri \in Opt(Uris), handler \in Handlers \cup {None},
       res \in TransportOutcomes :
        unregister_request_handler(method_uri, handler, res)

Receive ==
    \E request \in Messages, outcome \in HandlerOutcomes :
        on_receive(request, outcome)

Next == Register \/ Unregister \/ Receive

Spec == Init /\ [][Next]_vars

\* --------------------------------------- a transport that never refuses
\* The outcome of a transport call that reports OK.
TransportOk == [kind |-> "status", code |-> OK, message |-> ""]

RegisterOk ==
    \E method_uri \in Opt(Uris), handler \in Handlers \cup {None} :
        register_request_handler(method_uri, handler, TransportOk)

UnregisterOk ==
    \E method_uri \in Opt(Uris), handler \in Handlers \cup {None} :
        unregister_request_handler(method_uri, handler, TransportOk)

NextOk == RegisterOk \/ UnregisterOk \/ Receive

\* The three operations, one at a time, on a transport that reports OK for
\* every register_listener and unregister_listener call.
SpecOk == Init /\ [][NextOk]_vars

\* ------------------------------------- concurrent register_request_handler
\* Caller t enters register_request_handler(method_uri, handler): the argument
\* checks, which read nothing another caller writes.
RegCall(t, method_uri, handler) ==
    LET err == ArgumentError(<<method_uri>>, handler) IN
    /\ pc[t] = "idle"
    /\ t_uri' = [t_uri EXCEPT ![t] = method_uri]
    /\ t_handler' = [t_handler EXCEPT ![t] = handler]
    /\ IF err.kind = "raise"
       THEN /\ pc' = [pc EXCEPT ![t] = "done"]
            /\ t_ret' = [t_ret EXCEPT ![t] = err]
       ELSE /\ pc' = [pc EXCEPT ![t] = "check"]
            /\ UNCHANGED t_ret
    /\ UNCHANGED <<server, observed, t_res, t_msg>>

\* Caller t reads the registry: the existence check.
RegCheck(t) ==
    /\ pc[t] = "check"
    /\ IF AlreadyRegistered(request_handlers, t_uri[t])
       THEN /\ pc' = [pc EXCEPT ![t] = "done"]
            /\ t_ret' = [t_ret EXCEPT ![t] =
                             UStatus(ALREADY_EXISTS, "Handler already registered")]
       ELSE /\ pc' = [pc EXCEPT ![t] = "listen"]
            /\ UNCHANGED t_ret
    /\ UNCHANGED <<server, observed, t_uri, t_handler, t_res, t_msg>>

\* Caller t calls transport.register_listener, which ends as `res`, and
\* looks at the result.
RegListen(t, res) ==
    /\ pc[t] = "listen"
    /\ listeners' = register_listener(listeners, t_uri[t], res)
    /\ t_res' = [t_res EXCEPT ![t] = IF res.kind = "exception" THEN "exception" ELSE res.code]
    /\ IF res.kind = "exception"
       THEN /\ pc' = [pc EXCEPT ![t] = "done"]
            /\ t_ret' = [t_ret EXCEPT ![t] = UnexpectedError(res)]
       ELSE IF ListenerRefused(res)
       THEN /\ pc' = [pc EXCEPT ![t] = "done"]
            /\ t_ret' = [t_ret EXCEPT ![t] = UStatus(res.code, res.message)]
       ELSE /\ pc' = [pc EXCEPT ![t] = "store"]
            /\ UNCHANGED t_ret
    /\ UNCHANGED <<request_handlers, observed, t_uri, t_handler, t_msg>>

\* Caller t writes the registry and returns OK.
RegStore(t) ==
    /\ pc[t] = "store"
    /\ request_handlers' = dict_set(request_handlers, t_uri[t], t_handler[t])
    /\ pc' = [pc EXCEPT ![t] = "done"]
    /\ t_ret' = [t_ret EXCEPT ![t] = UStatus(OK, "")]
    /\ UNCHANGED <<listeners, observed, t_uri, t_handler, t_res, t_msg>>

ConcCall == \E t \in Threads, method_uri \in Uris, handler \in Handlers :
                RegCall(t, method_uri, handler)
ConcCheck == \E t \in Threads : RegCheck(t)
ConcListen == \E t \in Threads, res \in TransportOutcomes : RegListen(t, res)
ConcStore == \E t \in Threads : RegStore(t)

NextConc == ConcCall \/ ConcCheck \/ ConcListen \/ ConcStore

SpecConc == Init /\ [][NextConc]_vars

\* ----------------------------- unregister_request_handler against dispatch
\* The thread that calls register/unregister_request_handler and the thread
\* on which the transport invokes on_receive.
Caller == "T1"
Dispatcher == "T2"

\* del self.request_handlers[method_uri] on a key that is gone.
KeyError == Raised("KeyError", None, "")

\* Thread t enters unregister_request_handler(method_uri, handler): the
\* argument checks.
UnregCall(t, method_uri, handler) ==
    LET err == ArgumentError(<<method_uri>>, handler) IN
    /\ pc[t] = "idle"
    /\ t_uri' = [t_uri EXCEPT ![t] = method_uri]
    /\ t_handler' = [t_handler EXCEPT ![t] = handler]
    /\ IF err.kind = "raise"
       THEN /\ pc' = [pc EXCEPT ![t] = "u_done"]
            /\ t_ret' = [t_ret EXCEPT ![t] = err]
       ELSE /\ pc' = [pc EXCEPT ![t] = "u_check"]
            /\ UNCHANGED t_ret
    /\ UNCHANGED <<server, observed, t_res, t_msg>>

\* Thread t reads the registry: the match check.
UnregCheck(t) ==
    /\ pc[t] = "u_check"
    /\ IF HandlerMatches(request_handlers, t_uri[t], t_handler[t])
       THEN /\ pc' = [pc EXCEPT ![t] = "u_del"]
            /\ UNCHANGED t_ret
       ELSE /\ pc' = [pc EXCEPT ![t] = "u_done"]
            /\ t_ret' = [t_ret EXCEPT ![t] = UStatus(NOT_FOUND, "")]
    /\ UNCHANGED <<server, observed, t_uri, t_handler, t_res, t_msg>>

\* Thread t deletes the entry; del raises KeyError when the key is absent.
UnregDel(t) ==
    /\ pc[t] = "u_del"
    /\ IF dict_in(request_handlers, t_uri[t])
       THEN /\ request_handlers' = dict_del(request_handlers, t_uri[t])
            /\ pc' = [pc EXCEPT ![t] = "u_listen"]
            /\ UNCHANGED t_ret
       ELSE /\ pc' = [pc EXCEPT ![t] = "u_done"]
            /\ t_ret' = [t_ret EXCEPT ![t] = KeyError]
            /\ UNCHANGED request_handlers
    /\ UNCHANGED <<listeners, observed, t_uri, t_handler, t_res, t_msg>>

\* Thread t calls transport.unregister_listener, which ends as `res`, and
\* hands the result back.
UnregListen(t, res) ==
    /\ pc[t] = "u_listen"
    /\ listeners' = unregister_listener(listeners, t_uri[t], res)
    /\ t_res' = [t_res EXCEPT ![t] = IF res.kind = "exception" THEN "exception" ELSE res.code]
    /\ t_ret' = [t_ret EXCEPT ![t] = UnregisterReturn(res)]
    /\ pc' = [pc EXCEPT ![t] = "u_done"]
    /\ UNCHANGED <<request_handlers, observed, t_uri, t_handler, t_msg>>

\* The transport invokes on_receive(request) on thread t: the type check.
DispCall(t, request) ==
    /\ pc[t] = "idle"
    /\ t_msg' = [t_msg EXCEPT ![t] = <<request>>]
    /\ pc' = [pc EXCEPT ![t] = IF IsRequest(request) THEN "d_lookup" ELSE "d_done"]
    /\ UNCHANGED <<server, observed, t_uri, t_handler, t_res, t_ret>>

\* Thread t looks the handler up in the registry.
DispLookup(t) ==
    LET sink == t_msg[t][1].sink
        handler == LookupHandler(request_handlers, sink)
    IN
    /\ pc[t] = "d_lookup"
    /\ request_handlers' = AfterLookup(request_handlers, sink)
    /\ t_handler' = [t_handler EXCEPT ![t] = handler]
    /\ pc' = [pc EXCEPT ![t] = IF handler = None THEN "d_done" ELSE "d_handle"]
    /\ UNCHANGED <<listeners, observed, t_uri, t_res, t_ret, t_msg>>

\* Thread t invokes the handler, which ends as `outcome`, and sends the
\* response.
DispHandle(t, outcome) ==
    /\ pc[t] = "d_handle"
    /\ invoked' = <<[outcome |-> outcome, handler |-> t_handler[t]]>>
    /\ sends' = <<ResponseFor(t_msg[t][1], outcome)>>
    /\ pc' = [pc EXCEPT ![t] = "d_done"]
    /\ UNCHANGED <<server, op, arg_uri, arg_handler, arg_msg, ret, tcalls,
                   t_uri, t_handler, t_res, t_ret, t_msg>>

\* The call of thread t has ended; the thread is free for the next call.
Return(t) ==
    /\ pc[t] \in {"done", "u_done", "d_done"}
    /\ pc' = [pc EXCEPT ![t] = "idle"]
    /\ t_uri' = [t_uri EXCEPT ![t] = Source]
    /\ t_handler' = [t_handler EXCEPT ![t] = None]
    /\ t_res' = [t_res EXCEPT ![t] = None]
    /\ t_ret' = [t_ret EXCEPT ![t] = ReturnedNone]
    /\ t_msg' = [t_msg EXCEPT ![t] = <<>>]
    /\ UNCHANGED <<server, observed>>

RaceRegCall == \E method_uri \in Uris, handler \in Handlers :
                  RegCall(Caller, method_uri, handler)
RaceRegCheck == RegCheck(Caller)
RaceRegListen == \E res \in TransportOutcomes : RegListen(Caller, res)
RaceRegStore == RegStore(Caller)
RaceUnregCall == \E method_uri \in Uris, handler \in Handlers :
                    UnregCall(Caller, method_uri, handler)
RaceUnregCheck == UnregCheck(Caller)
RaceUnregDel == UnregDel(Caller)
RaceUnregListen == \E res \in TransportOutcomes : UnregListen(Caller, res)
RaceDispCall == \E request \in Messages : DispCall(Dispatcher, request)
RaceDispLookup == DispLookup(Dispatcher)
RaceDispHandle == \E outcome \in HandlerOutcomes : DispHandle(Dispatcher, outcome)
RaceReturn == \E t \in Threads : Return(t)

NextRace ==
    \/ RaceRegCall \/ RaceRegCheck \/ RaceRegListen \/ RaceRegStore
    \/ RaceUnregCall \/ RaceUnregCheck \/ RaceUnregDel \/ RaceUnregListen
    \/ RaceDispCall \/ RaceDispLookup \/ RaceDispHandle
    \/ RaceReturn

SpecRace == Init /\ [][NextRace]_vars

\* ------------------------------------------------------------ UriValidator
\* Characters of an entity name: whitespace and one other character.
Whitespace == {" ", "\t"}
NameChars == Whitespace \cup {"e"}

\* Strings up to n characters, as sequences of characters.
RECURSIVE StringsUpTo(_)
StringsUpTo(n) ==
    IF n = 0 THEN {<<>>}
    ELSE LET shorter == StringsUpTo(n - 1) IN
         shorter \cup {Append(w, ch) : w \in {x \in shorter : Len(x) = n - 1},
                                       ch \in NameChars}

\* str.lstrip(): leading whitespace removed.
RECURSIVE lstrip(_)
lstrip(w) ==
    IF w # <<>> /\ Head(w) \in Whitespace THEN lstrip(Tail(w)) ELSE w

\* str.rstrip(): trailing whitespace removed.
RECURSIVE rstrip(_)
rstrip(w) ==
    IF w # <<>> /\ w[Len(w)] \in Whitespace
    THEN rstrip(SubSeq(w, 1, Len(w) - 1))
    ELSE w

\* str.strip()
str_strip(w) == rstrip(lstrip(w))

\* A UResource: a name and an instance. "rpc" is the name of RPC methods.
UResource(name, instance) == [name |-> name, instance |-> instance]

\* UResource.for_rpc_response(): the one reserved RPC-response resource.
for_rpc_response == UResource("rpc", "response")

\* UResource.is_rpc_method()
is_rpc_method(u_resource) == u_resource.name = "rpc"

\* The empty resource, topics, RPC methods and the RPC-response resource.
Resources ==
    {UResource("", ""), UResource("door", ""), UResource("door", "response"),
     UResource("rpc", "Raise"), UResource("rpc", ""), for_rpc_response}

\* URIs given to the validator: authority, entity name and resource.
ValidatorUris ==
    [authority : {"", "vcu"}, entity_name : StringsUpTo(MaxNameLen),
     resource : Resources]

\* UUri.is_empty(): every part of the URI is empty.
is_empty(uri) ==
    /\ uri.authority = ""
    /\ uri.entity_name = <<>>
    /\ uri.resource = UResource("", "")

\* UStatus.failed_with_msg_and_code(msg, code)
failed_with_msg_and_code(msg, code) == UStatus(code, msg)

\* UStatus.ok()
ok == UStatus(OK, "ok")

\* UStatus.isFailed()
isFailed(status) == status.code # OK

\* Mutant of EntityNameMissing: the name is compared without strip().
EntityNameMissing_NoStrip(uri) == uri.entity_name = <<>>

\* uri.get_u_entity().name.strip() == ""
EntityNameMissing(uri) == str_strip(uri.entity_name) = <<>>

\* UriValidator.validate(uri)
validate(uri) ==
    IF is_empty(uri)
    THEN failed_with_msg_and_code("Uri is empty.", INVALID_ARGUMENT)
    ELSE IF EntityNameMissing(uri)
    THEN failed_with_msg_and_code("Uri is missing uSoftware Entity name.",
                                  INVALID_ARGUMENT)
    ELSE ok

\* Mutant of NotRpcMethod: every resource is taken for an RPC method.
NotRpcMethod_Never(u_resource) == FALSE

\* not u_resource.is_rpc_method()
NotRpcMethod(u_resource) == ~is_rpc_method(u_resource)

\* UriValidator.validate_rpc_method(uri)
validate_rpc_method(uri) ==
    LET status == validate(uri) IN
    IF isFailed(status) THEN status
    ELSE IF NotRpcMethod(uri.resource)
    THEN failed_with_msg_and_code(
             "Invalid RPC method uri. Uri should be the method to be called, or method from response.",
             INVALID_ARGUMENT)
    ELSE ok

\* Mutant of NotRpcResponse: the instance is not compared.
NotRpcResponse_InstanceIgnored(u_resource) == ~is_rpc_method(u_resource)

\* not (u_resource.is_rpc_method()
\*      and u_resource.instance == UResource.for_rpc_response().instance)
NotRpcResponse(u_resource) ==
    ~(is_rpc_method(u_resource) /\ u_resource.instance = for_rpc_response.instance)

\* UriValidator.validate_rpc_response(uri)
validate_rpc_response(uri) ==
    LET status == validate(uri) IN
    IF isFailed(status) THEN status
    ELSE IF NotRpcResponse(uri.resource)
    THEN failed_with_msg_and_code("Invalid RPC response type.", INVALID_ARGUMENT)
    ELSE ok

\* A call of one of the validator's functions: the function, its argument and
\* the status it returned are recorded; the validator has no state.
Validated(name, uri, status) ==
    /\ op' = name
    /\ arg_uri' = <<uri>>
    /\ ret' = status
    /\ UNCHANGED <<server, arg_handler, arg_msg, invoked, sends, tcalls, threads>>

Validate == \E uri \in ValidatorUris : Validated("validate", uri, validate(uri))

ValidateRpcMethod ==
    \E uri \in ValidatorUris :
        Validated("validate_rpc_method", uri, validate_rpc_method(uri))

ValidateRpcResponse ==
    \E uri \in ValidatorUris :
        Validated("validate_rpc_response", uri, validate_rpc_response(uri))

NextValidator == Validate \/ ValidateRpcMethod \/ ValidateRpcResponse

SpecValidator == Init /\ [][NextValidator]_vars

\* --------------------------------------------------------------- RpcResult
\* The UCode enumeration.
UCodes ==
    {OK, "CANCELLED", "UNKNOWN", INVALID_ARGUMENT, "DEADLINE_EXCEEDED", NOT_FOUND,
     ALREADY_EXISTS, "PERMISSION_DENIED", "UNAUTHENTICATED", "RESOURCE_EXHAUSTED",
     "FAILED_PRECONDITION", "ABORTED", "OUT_OF_RANGE", "UNIMPLEMENTED", INTERNAL,
     UNAVAILABLE, "DATA_LOSS"}

\* Messages given to RpcResult.failure.
ResultMessages == {"", "boom", "bad", "down", "ok", "Uri is empty."}

\* Mutant of RpcFailure: the message is not kept.
RpcFailure_MessageLost(code, message) ==
    [status |-> UStatus(code, ""), tag |-> "Failure"]

\* RpcResult.success(value): the Success variant holding value.
RpcSuccess(value) == [tag |-> "Success", value |-> value]

\* RpcResult.failure(code, message): the Failure variant holding the Status
\* built from code and message.
RpcFailure(code, message) ==
    [status |-> UStatus(code, message), tag |-> "Failure"]

\* RpcResult.is_success()
is_success(result) == result.tag = "Success"

\* Mutant of is_failure: a result counts as failed unless it holds a value
\* other than zero.
is_failure_Falsy(result) ==
    result.tag = "Failure" \/ result.value = 0

\* RpcResult.is_failure()
is_failure(result) == result.tag = "Failure"

\* RpcResult.failure_value(): the Status of a Failure.
failure_value(result) == result.status

\* A call of one of RpcResult's constructors: the constructor, its arguments
\* and the result it built are recorded.
Constructed(name, args, result) ==
    /\ op' = name
    /\ arg_msg' = <<args>>
    /\ ret' = result
    /\ UNCHANGED <<server, arg_uri, arg_handler, invoked, sends, tcalls, threads>>

Success ==
    \E value \in 0..MaxValue :
        Constructed("success", [value |-> value], RpcSuccess(value))

Failure ==
    \E code \in UCodes, message \in ResultMessages :
        Constructed("failure", [code |-> code, message |-> message],
                    RpcFailure(code, message))

NextResult == Success \/ Failure

SpecResult == Init /\ [][NextResult]_vars

\* ------------------------------------------------------------------ claims
\* The step just taken was a call of `name` (every operation sets op).
Ran(name) == op' = name

\* The last operation was a dispatch of a REQUEST that invoked a handler.
Dispatched ==
    /\ op = "on_receive"
    /\ arg_msg # <<>>
    /\ arg_msg[1].type = REQUEST
    /\ invoked # <<>>

\* C1 (end-to-end success): a successful register_request_handler(M, H)
\* leaves H in the registry under M, and a REQUEST with sink M delivered while
\* the registry holds H for M invokes H exactly once; when H returns a payload
\* P, transport.send is called exactly once for that delivery, with the
\* response built from the request (same id, source and sink swapped),
\* carrying P and no comm-status.
C1_EndToEndSuccess ==
    [][ /\ \A m \in Uris, h \in Handlers :
              ( /\ Ran("register_request_handler")
                /\ arg_uri' = <<m>> /\ arg_handler' = h
                /\ ret'.kind = "status" /\ ret'.code = OK )
              => dict_get(request_handlers', m) = h
        /\ \A request \in Messages :
              ( /\ Ran("on_receive")
                /\ arg_msg' = <<request>>
                /\ request.type = REQUEST
                /\ dict_in(request_handlers, request.sink) )
              => /\ Len(invoked') = 1
                 /\ invoked'[1].handler = request_handlers[request.sink]
                 /\ invoked'[1].outcome.kind = "return"
                    => sends' = << [payload |-> invoked'[1].outcome.payload,
                                    type |-> RESPONSE,
                                    source |-> request.sink,
                                    sink |-> request.source,
                                    reqid |-> request.id,
                                    commstatus |-> None] >>
      ]_vars

\* C1 witness: a dispatched REQUEST whose handler returned a payload, answered.
C1_Witness ==
    /\ Dispatched
    /\ invoked[1].outcome.kind = "return"
    /\ Len(sends) = 1
    /\ sends[1].payload \in Payloads

\* C2 (end-to-end failure mapping): when a dispatched REQUEST's handler fails,
\* exactly one response is sent, it carries no payload, and its comm-status is
\* the code of the failure when the failure is a UStatusError and INTERNAL for
\* every other failure.
C2_FailureMapping ==
    ( Dispatched /\ invoked[1].outcome.kind # "return" )
    => /\ Len(sends) = 1
       /\ sends[1].payload = None
       /\ sends[1].reqid = arg_msg[1].id
       /\ sends[1].commstatus =
             IF invoked[1].outcome.kind = "ustatuserror"
             THEN invoked[1].outcome.code
             ELSE INTERNAL

\* C2 witness: a handler failed with the status error INVALID_ARGUMENT "bad".
C2_Witness ==
    /\ Dispatched
    /\ invoked[1].outcome.kind = "ustatuserror"
    /\ invoked[1].outcome.code = INVALID_ARGUMENT
    /\ invoked[1].outcome.message = "bad"
    /\ Len(sends) = 1

\* C3 (registration is persistent): dispatching a REQUEST to M does not remove
\* the registry entry for M, so the entry lives until an explicit unregister
\* and every later REQUEST to M still finds its handler.
C3_Persistent ==
    [][ \A request \in Messages :
            ( /\ Ran("on_receive")
              /\ arg_msg' = <<request>>
              /\ request.type = REQUEST
              /\ dict_in(request_handlers, request.sink) )
            => /\ dict_in(request_handlers', request.sink)
               /\ request_handlers'[request.sink] = request_handlers[request.sink]
      ]_vars

\* C4 (one handler per method): while the registry holds a handler for M,
\* register_request_handler(M, H2) returns ALREADY_EXISTS for any handler H2
\* and the registry is left as it was (H2 is not stored).
C4_OneHandlerPerMethod ==
    [][ \A m \in Uris, h2 \in Handlers :
            ( /\ Ran("register_request_handler")
              /\ arg_uri' = <<m>> /\ arg_handler' = h2
              /\ dict_in(request_handlers, m) )
            => /\ ret'.kind = "status"
               /\ ret'.code = ALREADY_EXISTS
               /\ request_handlers' = request_handlers
      ]_vars

\* C4 witness: a second registration, with another handler, was refused.
C4_Witness ==
    /\ op = "register_request_handler"
    /\ ret.kind = "status" /\ ret.code = ALREADY_EXISTS
    /\ arg_uri # <<>>
    /\ dict_in(request_handlers, arg_uri[1])
    /\ request_handlers[arg_uri[1]] # arg_handler

\* C5 (source mismatch on registration): register_request_handler(M, H) with
\* both arguments present and M not matching the transport source returns a
\* Status with code INVALID_ARGUMENT and leaves the registry unchanged.
C5_MismatchReturnsStatus ==
    [][ \A m \in Uris, h \in Handlers :
            ( /\ Ran("register_request_handler")
              /\ arg_uri' = <<m>> /\ arg_handler' = h
              /\ ~SourceMatches(m) )
            => /\ ret'.kind = "status"
               /\ ret'.code = INVALID_ARGUMENT
               /\ request_handlers' = request_handlers
      ]_vars

\* C6 (unregister without a match): unregister_request_handler(M, H) with M
\* matching the source returns NOT_FOUND when the registry holds no handler
\* for M or another handler than H; the registry is left unchanged and the
\* transport is not asked to unregister the listener.
C6_UnregisterNotFound ==
    [][ \A m \in Uris, h \in Handlers :
            ( /\ Ran("unregister_request_handler")
              /\ arg_uri' = <<m>> /\ arg_handler' = h
              /\ SourceMatches(m)
              /\ dict_get(request_handlers, m) # h )
            => /\ ret' = UStatus(NOT_FOUND, "")
               /\ request_handlers' = request_handlers
               /\ tcalls' = <<>>
               /\ listeners' = listeners
      ]_vars

\* C6 witness: NOT_FOUND for a method that another handler is registered for.
C6_Witness ==
    /\ op = "unregister_request_handler"
    /\ ret.kind = "status" /\ ret.code = NOT_FOUND
    /\ arg_uri # <<>>
    /\ dict_in(request_handlers, arg_uri[1])
    /\ request_handlers[arg_uri[1]] # arg_handler

\* C7 (unregister with a match): unregister_request_handler(M, H) with M
\* matching the source and the registry mapping M to H removes the entry for
\* M, asks the transport once to unregister the listener for sink M, and
\* returns the Status the transport reported; the entry is removed whatever
\* the transport reported.
C7_UnregisterMatch ==
    [][ \A m \in Uris, h \in Handlers :
            ( /\ Ran("unregister_request_handler")
              /\ arg_uri' = <<m>> /\ arg_handler' = h
              /\ SourceMatches(m)
              /\ dict_get(request_handlers, m) = h )
            => /\ ~dict_in(request_handlers', m)
               /\ \A k \in DOMAIN request_handlers' :
                      request_handlers'[k] = request_handlers[k]
               /\ DOMAIN request_handlers' = (DOMAIN request_handlers) \ {m}
               /\ Len(tcalls') = 1
               /\ tcalls'[1].fn = "unregister_listener"
               /\ tcalls'[1].sink = m
               /\ tcalls'[1].res.kind = "status"
                  => ret' = UStatus(tcalls'[1].res.code, tcalls'[1].res.message)
      ]_vars

\* C7 witness: a matching unregister whose transport call reported a failure.
C7_Witness ==
    /\ op = "unregister_request_handler"
    /\ Len(tcalls) = 1
    /\ tcalls[1].res.kind = "status"
    /\ tcalls[1].res.code = UNAVAILABLE
    /\ ret.code = UNAVAILABLE
    /\ ~dict_in(request_handlers, arg_uri[1])

\* C8 (non-REQUEST messages): a message whose type is not REQUEST delivered to
\* on_receive causes no transport.send, invokes no handler and leaves the
\* registry unchanged, whatever its sink and whatever the registry holds.
C8_NonRequestIgnored ==
    [][ \A request \in Messages :
            ( /\ Ran("on_receive")
              /\ arg_msg' = <<request>>
              /\ request.type # REQUEST )
            => /\ sends' = <<>>
               /\ invoked' = <<>>
               /\ request_handlers' = request_handlers
      ]_vars

\* C8 witness: a PUBLISH whose sink has a registered handler was delivered.
C8_Witness ==
    /\ op = "on_receive"
    /\ arg_msg # <<>>
    /\ arg_msg[1].type = PUBLISH
    /\ dict_in(request_handlers, arg_msg[1].sink)

\* C9 (no partial success): when transport.register_listener reports a status
\* that is not OK during register_request_handler(M, H), the call returns a
\* Status with that code and the registry holds no handler for M afterwards.
C9_NoPartialSuccess ==
    ( /\ op = "register_request_handler"
      /\ tcalls # <<>>
      /\ tcalls[1].res.kind = "status"
      /\ tcalls[1].res.code # OK )
    => /\ ret.kind = "status"
       /\ ret.code = tcalls[1].res.code
       /\ ~dict_in(request_handlers, arg_uri[1])

\* C9 witness: a registration the transport refused with UNAVAILABLE.
C9_Witness ==
    /\ op = "register_request_handler"
    /\ tcalls # <<>>
    /\ tcalls[1].res.kind = "status"
    /\ tcalls[1].res.code = UNAVAILABLE
    /\ ret.code = UNAVAILABLE

\* C10 (registration is atomic with respect to other registrations): when
\* two register_request_handler calls for the same method URI M with different
\* handlers run concurrently and the transport refuses neither, exactly one of
\* them returns OK, the other returns ALREADY_EXISTS, and the handler stored
\* for M is the one whose call returned OK.
C10_AtomicRegistration ==
    \A t1, t2 \in Threads :
        ( /\ t1 # t2
          /\ pc[t1] = "done" /\ pc[t2] = "done"
          /\ t_uri[t1] = t_uri[t2]
          /\ SourceMatches(t_uri[t1])
          /\ t_handler[t1] # t_handler[t2]
          /\ t_res[t1] \in {None, OK} /\ t_res[t2] \in {None, OK} )
        => \E w, l \in {t1, t2} :
              /\ w # l
              /\ t_ret[w] = UStatus(OK, "")
              /\ t_ret[l].kind = "status" /\ t_ret[l].code = ALREADY_EXISTS
              /\ dict_get(request_handlers, t_uri[t1]) = t_handler[w]

\* C11 (source mismatch on unregistration): unregister_request_handler(M, H)
\* with both arguments present always hands the caller a Status; when M does
\* not match the transport source it returns a Status with code
\* INVALID_ARGUMENT and changes neither the registry nor the transport's
\* listeners.
C11_UnregisterMismatchReturnsStatus ==
    [][ \A m \in Uris, h \in Handlers :
            ( /\ Ran("unregister_request_handler")
              /\ arg_uri' = <<m>> /\ arg_handler' = h
              /\ ~SourceMatches(m) )
            => /\ ret'.kind = "status"
               /\ ret'.code = INVALID_ARGUMENT
               /\ request_handlers' = request_handlers
               /\ listeners' = listeners
               /\ tcalls' = <<>>
      ]_vars

\* C17 (REQUEST without a handler): a REQUEST whose sink has no handler in the
\* registry is dropped by on_receive: no handler is invoked, transport.send is
\* not called, nothing is raised, and the registry is left unchanged, entries
\* for other method URIs included.
C17_UnhandledRequestDropped ==
    [][ \A request \in Messages :
            ( /\ Ran("on_receive")
              /\ arg_msg' = <<request>>
              /\ request.type = REQUEST
              /\ ~dict_in(request_handlers, request.sink) )
            => /\ invoked' = <<>>
               /\ sends' = <<>>
               /\ ret' = ReturnedNone
               /\ request_handlers' = request_handlers
      ]_vars

\* C17 witness: a REQUEST for a method without a handler was delivered while
\* another method had one.
C17_Witness ==
    /\ op = "on_receive"
    /\ arg_msg # <<>>
    /\ arg_msg[1].type = REQUEST
    /\ arg_msg[1].sink \in OwnUris
    /\ invoked = <<>>
    /\ request_handlers # EmptyDict
    /\ ~dict_in(request_handlers, arg_msg[1].sink)

\* C19 (registry and transport listeners stay in step): on a transport that
\* reports OK for every register_listener and unregister_listener call, after
\* any sequence of register_request_handler, unregister_request_handler and
\* on_receive calls, the transport holds a listener for sink M if and only if
\* the registry holds a handler for M.
C19_ListenersMatchRegistry ==
    \A m \in Uris : (m \in listeners) <=> dict_in(request_handlers, m)

\* C20 (unexpected transport error on registration): when
\* transport.register_listener raises an exception that is no UStatusError
\* during register_request_handler(M, H), the call returns a Status with code
\* INTERNAL and the registry holds no handler for M afterwards.
C20_UnexpectedErrorIsInternal ==
    ( /\ op = "register_request_handler"
      /\ tcalls # <<>>
      /\ tcalls[1].res.kind = "exception" )
    => /\ ret.kind = "status"
       /\ ret.code = INTERNAL
       /\ ~dict_in(request_handlers, arg_uri[1])

\* C20 witness: a registration during which the transport raised.
C20_Witness ==
    /\ op = "register_request_handler"
    /\ arg_uri # <<>>
    /\ SourceMatches(arg_uri[1])
    /\ tcalls # <<>>
    /\ tcalls[1].fn = "register_listener"
    /\ tcalls[1].res.kind = "exception"
    /\ ret.code = INTERNAL

\* C18 (unregistration is atomic with respect to dispatch): when
\* unregister_request_handler(M, H), with M matching the source, runs while
\* the transport's thread dispatches a REQUEST with sink M, and the transport
\* does not refuse the unregistration, unregister ends by returning a Status
\* with code OK or NOT_FOUND; it never fails with an error caused by the
\* entry having disappeared.
C18_UnregisterSurvivesDispatch ==
    ( /\ pc[Caller] = "u_done"
      /\ SourceMatches(t_uri[Caller])
      /\ t_res[Caller] \in {None, OK} )
    => /\ t_ret[Caller].kind = "status"
       /\ t_ret[Caller].code \in {OK, NOT_FOUND}

\* The entity name of uri is blank: empty or made of whitespace only.
Blank(uri) == \A i \in 1..Len(uri.entity_name) : uri.entity_name[i] \in Whitespace

\* The URI passes validate: it is not empty and its entity name is not blank.
PassesValidate(uri) == ~is_empty(uri) /\ ~Blank(uri)

\* C12 (validate): UriValidator.validate(uri) returns OK for every URI that is
\* not empty and whose entity name is not blank, and a failed Status with code
\* INVALID_ARGUMENT for every empty URI and every URI whose entity name is
\* blank.
C12_Validate ==
    op = "validate"
    => IF PassesValidate(arg_uri[1])
       THEN ret.kind = "status" /\ ret.code = OK
       ELSE ret.kind = "status" /\ ret.code = INVALID_ARGUMENT

\* C12 witness: a URI that is not empty but whose entity name is whitespace
\* only was refused.
C12_Witness ==
    /\ op = "validate"
    /\ ~is_empty(arg_uri[1])
    /\ arg_uri[1].entity_name # <<>>
    /\ Blank(arg_uri[1])
    /\ ret.code = INVALID_ARGUMENT

\* C13 as claimed (validate_rpc_method): returns OK only for URIs that pass
\* validate and whose resource is a method resource; returns INVALID_ARGUMENT
\* for every URI whose resource is a plain topic and for every URI whose
\* resource is the reserved RPC-response resource; a failing validate status
\* is returned unchanged.
C13_RpcMethodAsClaimed ==
    op = "validate_rpc_method"
    => LET uri == arg_uri[1] IN
       /\ ret.code = OK => PassesValidate(uri) /\ is_rpc_method(uri.resource)
       /\ ~is_rpc_method(uri.resource) => ret.code = INVALID_ARGUMENT
       /\ uri.resource = for_rpc_response => ret.code = INVALID_ARGUMENT
       /\ ~PassesValidate(uri) => ret = validate(uri)

\* C13 amended (validate_rpc_method): returns OK exactly for the URIs that
\* pass validate and whose resource is an RPC-method resource, the reserved
\* RPC-response resource included; returns INVALID_ARGUMENT for every URI
\* whose resource is a plain topic; a failing validate status is returned
\* unchanged.
C13_RpcMethod ==
    op = "validate_rpc_method"
    => LET uri == arg_uri[1] IN
       /\ ret.kind = "status"
       /\ ret.code = OK <=> PassesValidate(uri) /\ is_rpc_method(uri.resource)
       /\ ret.code # OK => ret.code = INVALID_ARGUMENT
       /\ ~is_rpc_method(uri.resource) => ret.code = INVALID_ARGUMENT
       /\ (PassesValidate(uri) /\ uri.resource = for_rpc_response) => ret.code = OK
       /\ ~PassesValidate(uri) => ret = validate(uri)

\* C13 witness: a valid URI with the RPC-response resource was accepted.
C13_Witness ==
    /\ op = "validate_rpc_method"
    /\ PassesValidate(arg_uri[1])
    /\ arg_uri[1].resource = for_rpc_response
    /\ ret.code = OK

\* C14 (validate_rpc_response): returns OK if and only if the URI passes
\* validate and its resource is an RPC-method resource whose instance equals
\* the instance of the reserved RPC-response resource; in every other case it
\* returns INVALID_ARGUMENT, a failing validate status being returned
\* unchanged.
C14_RpcResponse ==
    op = "validate_rpc_response"
    => LET uri == arg_uri[1] IN
       /\ ret.kind = "status"
       /\ ret.code = OK <=>
             /\ PassesValidate(uri)
             /\ is_rpc_method(uri.resource)
             /\ uri.resource.instance = for_rpc_response.instance
       /\ ret.code # OK => ret.code = INVALID_ARGUMENT
       /\ ~PassesValidate(uri) => ret = validate(uri)

\* C14 witness: a valid URI whose resource is an RPC method, but not the
\* response one, was refused.
C14_Witness ==
    /\ op = "validate_rpc_response"
    /\ PassesValidate(arg_uri[1])
    /\ is_rpc_method(arg_uri[1].resource)
    /\ arg_uri[1].resource.instance # for_rpc_response.instance
    /\ ret.code = INVALID_ARGUMENT

\* C15 (is_success and is_failure exclude each other): for every RpcResult
\* exactly one of is_success() and is_failure() is true: success(v) has
\* is_success() true and is_failure() false for every v, and
\* failure(code, message) has is_failure() true and is_success() false for
\* every code and message.
C15_ExactlyOneVariant ==
    /\ op = "success" => is_success(ret) /\ ~is_failure(ret)
    /\ op = "failure" => is_failure(ret) /\ ~is_success(ret)

\* C15 witness: success(0) was built, and it is a success.
C15_Witness ==
    /\ op = "success"
    /\ arg_msg[1].value = 0
    /\ is_success(ret)

\* C16 (round trip of a failure): for every code c and message m,
\* failure(c, m).failure_value() is a Status whose code is c and whose message
\* is m.
C16_FailureRoundTrip ==
    op = "failure"
    => /\ failure_value(ret).code = arg_msg[1].code
       /\ failure_value(ret).message = arg_msg[1].message

\* C16 witness: failure(INVALID_ARGUMENT, "boom") was built.
C16_Witness ==
    /\ op = "failure"
    /\ arg_msg[1].code = INVALID_ARGUMENT
    /\ arg_msg[1].message = "boom"
    /\ failure_value(ret).message = "boom"

====
